---------------------------- MODULE Spec2Model ----------------------------
(***************************************************************************)
(* A model of pyuavcan/presentation/_session/_subscriber.py: one           *)
(* SubscriberImpl (the shared receiver of one subject), its background     *)
(* task, and the Subscriber proxies attached to it, each with its          *)
(* _Listener.  The asyncio event loop is cooperative: every action below   *)
(* is the code that runs between two suspension points of one task.        *)
(***************************************************************************)
EXTENDS Integers, Sequences, FiniteSets, TLC

\* ------------------------------------------------------------- bounds ---
NumSubs == 2          \* Subscriber objects the registry may create
MaxTransfers == 2     \* transfers the transport session delivers
MaxCapacity == 1      \* largest bounded queue capacity requested

\* --------------------------------------------------- program constants ---
RECEIVE_TIMEOUT == 1

Subs == 1..NumSubs
None == "None"
ClosedError == "PresentationSessionClosedError"
TransportFault == "TransportFault"
FinalizerFault == "FinalizerFault"
StopAsyncIteration == "StopAsyncIteration"
\* queue_capacity arguments: None (unlimited) or an integer
Capacities ==
    {[none |-> TRUE, value |-> 0]}
        \cup {[none |-> FALSE, value |-> c] : c \in 0..MaxCapacity}
\* timeout arguments of receive_for: negative, zero, positive
Timeouts == {-1, 0, 1}
\* values of loop.time() and of monotonic deadlines
Times == {0, 1}

VARIABLES
    impl_closed,      \* SubscriberImpl._closed
    listeners,        \* SubscriberImpl._listeners (a list of subscriber ids)
    deserialization_failure_count,
    task,             \* SubscriberImpl._task: "created", "suspended", "done"
    must_cancel,      \* a cancellation of _task is pending
    finalizer_calls,  \* how many times _finalizer was invoked
    finalizer_outcome, \* how the _finalizer call ended: "returned", "raised"
    exit_cause,       \* how _task_function left its loop
    ntransfers,       \* transfers delivered by the transport session so far
    fanout,           \* the (message, transfer) pairs fanned out so far
    sub,              \* per Subscriber: "absent", "live", "failed" (its
                      \* constructor raised) or "deleted" (__del__ has run)
    closed,           \* Subscriber._closed
    rx,               \* Subscriber._rx, the _Listener record
    call,             \* the receive call a Subscriber is suspended in
    last,             \* the receive call completed last: whose, its outcome, and
                      \* whether its Listener carried a terminal failure then
    taken,            \* the items the Subscriber's receive calls returned
    attached_at,      \* Len(fanout) when the Listener was registered
    detached_at,      \* Len(fanout) when the Listener was removed, or -1
    close_called,     \* Subscriber.close() has been called
    maybe_task,       \* the task of Subscriber._maybe_task: "none", "created",
                      \* "receiving", "handler", "sleeping", "done"
    maybe_cancel,     \* a cancellation of that task is pending
    handler_raised    \* the handler of that task has raised an exception

vars == <<impl_closed, listeners, deserialization_failure_count, task,
          must_cancel, finalizer_calls, finalizer_outcome, exit_cause,
          ntransfers, fanout, sub, closed, rx, call, last, taken, attached_at,
          detached_at, close_called, maybe_task, maybe_cancel, handler_raised>>

implVars == <<impl_closed, listeners, deserialization_failure_count, task,
              must_cancel, finalizer_calls, finalizer_outcome, exit_cause,
              ntransfers, fanout>>

\* the task started by receive_in_background, one per Subscriber
taskVars == <<maybe_task, maybe_cancel, handler_raised>>

\* ------------------------------------------------------------ helpers ---
Range(s) == {s[i] : i \in 1..Len(s)}

\* list.remove(x): drops the first occurrence
RECURSIVE ListRemove(_, _)
ListRemove(s, x) ==
    IF s = <<>> THEN <<>>
    ELSE IF Head(s) = x THEN Tail(s)
    ELSE <<Head(s)>> \o ListRemove(Tail(s), x)

\* ----------------------------------------------------------- _Listener ---
NewListener(maxsize) ==
    [queue |-> <<>>, maxsize |-> maxsize, push_count |-> 0,
     overrun_count |-> 0, exception |-> None]

QueueFull_OffByOne(l) == l.maxsize > 0 /\ Len(l.queue) > l.maxsize

\* asyncio.Queue.full(): a maxsize of 0 means unlimited
QueueFull(l) == l.maxsize > 0 /\ Len(l.queue) >= l.maxsize

Push_EvictOldest(l, item) ==
    IF QueueFull(l)
    THEN [l EXCEPT !.queue = Append(Tail(@), item), !.overrun_count = @ + 1]
    ELSE [l EXCEPT !.queue = Append(@, item), !.push_count = @ + 1]

\* _Listener.push
Push(l, item) ==
    IF QueueFull(l)
    THEN [l EXCEPT !.overrun_count = @ + 1]
    ELSE [l EXCEPT !.queue = Append(@, item), !.push_count = @ + 1]

\* ------------------------------------------------------ SubscriberImpl ---
\* pyuavcan.dsdl.deserialize: one new message object per transfer, or None
NoMessage == <<>>
Deserialize(transfer) ==
    IF transfer.payload = "valid" THEN <<transfer.id>> ELSE NoMessage

Dispatch_FirstOnly(r, ls, cnt, transfer) ==
    LET message == Deserialize(transfer) IN
    IF message # NoMessage
    THEN [rx |-> [s \in Subs |->
                    IF ls # <<>> /\ s = Head(ls)
                    THEN Push(r[s], <<message, transfer>>) ELSE r[s]],
          count |-> cnt,
          pushed |-> <<<<message, transfer>>>>]
    ELSE [rx |-> r, count |-> cnt + 1, pushed |-> <<>>]

Dispatch_PushOnFailure(r, ls, cnt, transfer) ==
    LET message == Deserialize(transfer) IN
    [rx |-> [s \in Subs |->
                IF s \in Range(ls)
                THEN Push(r[s], <<message, transfer>>) ELSE r[s]],
     count |-> IF message # NoMessage THEN cnt ELSE cnt + 1,
     pushed |-> IF message # NoMessage THEN <<<<message, transfer>>>> ELSE <<>>]

\* _task_function, lines 284-290: what is done with a received transfer
Dispatch(r, ls, cnt, transfer) ==
    LET message == Deserialize(transfer) IN
    IF message # NoMessage
    THEN [rx |-> [s \in Subs |->
                    IF s \in Range(ls)
                    THEN Push(r[s], <<message, transfer>>) ELSE r[s]],
          count |-> cnt,
          pushed |-> <<<<message, transfer>>>>]
    ELSE [rx |-> r, count |-> cnt + 1, pushed |-> <<>>]

Finalize_Retry(exception, finalizer_raises, calls) ==
    [closed |-> TRUE,
     calls |-> IF finalizer_raises THEN calls + 2 ELSE calls + 1,
     exception |-> IF finalizer_raises THEN FinalizerFault
                   ELSE IF exception # None THEN exception ELSE ClosedError]

Finalize_KeepsFirst(exception, finalizer_raises, calls) ==
    [closed |-> TRUE,
     calls |-> calls + 1,
     exception |-> IF exception # None THEN exception
                   ELSE IF finalizer_raises THEN FinalizerFault
                   ELSE ClosedError]

\* _task_function, lines 298-306: the code after the loop
Finalize(exception, finalizer_raises, calls) ==
    [closed |-> TRUE,
     calls |-> calls + 1,
     exception |-> IF finalizer_raises THEN FinalizerFault
                   ELSE IF exception # None THEN exception ELSE ClosedError]

\* _task_function, lines 307-308
SetException(r, ls, exception) ==
    [s \in Subs |-> IF s \in Range(ls)
                    THEN [r[s] EXCEPT !.exception = exception] ELSE r[s]]

Cancel_Ignored(t, mc) == mc

\* asyncio.Task.cancel() as called on self._task: no effect on a finished task
Cancel(t, mc) == IF t = "done" THEN mc ELSE TRUE

AddListener_NoCheck(ls, cl, s) ==
    [raise |-> None, listeners |-> Append(ls, s)]

\* SubscriberImpl.add_listener
AddListener(ls, cl, s) ==
    IF cl THEN [raise |-> ClosedError, listeners |-> ls]
    ELSE [raise |-> None, listeners |-> Append(ls, s)]

RemoveListener_PopsLast(ls, cl, s) ==
    LET ls2 == IF s \in Range(ls) THEN SubSeq(ls, 1, Len(ls) - 1) ELSE ls IN
    [listeners |-> ls2,
     closed |-> cl \/ Len(ls2) = 0,
     cancel |-> Len(ls2) = 0 /\ ~cl]

RemoveListener_AlwaysCancel(ls, cl, s) ==
    LET ls2 == ListRemove(ls, s) IN
    [listeners |-> ls2, closed |-> TRUE, cancel |-> ~cl]

RemoveListener_RecomputesClosed(ls, cl, s) ==
    LET ls2 == ListRemove(ls, s) IN
    [listeners |-> ls2,
     closed |-> Len(ls2) = 0,
     cancel |-> Len(ls2) = 0 /\ ~cl]

\* SubscriberImpl.remove_listener
RemoveListener(ls, cl, s) ==
    LET ls2 == ListRemove(ls, s) IN
    [listeners |-> ls2,
     closed |-> cl \/ Len(ls2) = 0,
     cancel |-> Len(ls2) = 0 /\ ~cl]

\* ---------------------------------------------------------- Subscriber ---
RaiseIfClosedOrFailed_NoClosedCheck(cl, exception) ==
    IF exception # None THEN [raise |-> exception, closed |-> TRUE]
    ELSE [raise |-> None, closed |-> cl]

RaiseIfClosedOrFailed_NoFailureCheck(cl, exception) ==
    IF cl THEN [raise |-> ClosedError, closed |-> TRUE]
    ELSE [raise |-> None, closed |-> cl]

\* Subscriber._raise_if_closed_or_failed
RaiseIfClosedOrFailed(cl, exception) ==
    IF cl THEN [raise |-> ClosedError, closed |-> TRUE]
    ELSE IF exception # None THEN [raise |-> exception, closed |-> TRUE]
    ELSE [raise |-> None, closed |-> cl]

Suspends_OnZero(timeout) == timeout >= 0

\* receive_for, line 161: which branch waits on the queue
Suspends(timeout) == timeout > 0

\* Subscriber.__init__, lines 68-73: the maxsize handed to asyncio.Queue
Maxsize(queue_capacity) ==
    IF queue_capacity.none THEN 0 ELSE queue_capacity.value

WaitFor_RaisesFailure(l) ==
    IF l.exception # None THEN l.exception
    ELSE IF l.queue # <<>> THEN "item" ELSE "timeout"

\* receive_for, lines 162-168: how the wait on the queue ends.  The timer of
\* asyncio.wait_for fires only while the queue has nothing to hand over.
WaitFor(l) == IF l.queue # <<>> THEN "item" ELSE "timeout"

\* Whether an exception is a pyuavcan.transport.ResourceClosedError: the
\* closed error of this module is one, the opaque faults are not.
IsResourceClosedError(exception) == exception = ClosedError

Propagate_EndsOnAnyFailure(kind, exception) ==
    IF kind = "anext" THEN StopAsyncIteration ELSE exception

\* What the caller of a failed receive call gets: __anext__ (lines 186-189)
\* turns a ResourceClosedError of receive() into StopAsyncIteration.
Propagate(kind, exception) ==
    IF kind = "anext" /\ IsResourceClosedError(exception)
    THEN StopAsyncIteration ELSE exception

\* task_function, lines 113-121: after a failed receive() the task ends on a
\* ResourceClosedError and sleeps before the next round on any other error.
AfterReceiveFailure(exception) ==
    IF IsResourceClosedError(exception) THEN "done" ELSE "sleeping"

AfterHandler_FaultBreaks(raises) == IF raises THEN "done" ELSE "loop"

\* task_function, lines 107-112: an exception of the handler is logged, and
\* the loop goes on as it does when the handler returns.
AfterHandler(raises) == "loop"

\* -------------------------------------------------------------- Init ---
Init ==
    /\ impl_closed = FALSE
    /\ listeners = <<>>
    /\ deserialization_failure_count = 0
    /\ task = "created"
    /\ must_cancel = FALSE
    /\ finalizer_calls = 0
    /\ finalizer_outcome = None
    /\ exit_cause = None
    /\ ntransfers = 0
    /\ fanout = <<>>
    /\ sub = [s \in Subs |-> "absent"]
    /\ closed = [s \in Subs |-> FALSE]
    /\ rx = [s \in Subs |-> NewListener(0)]
    /\ call = [s \in Subs |-> "idle"]
    /\ last = [sub |-> 0, outcome |-> None, failed |-> FALSE]
    /\ taken = [s \in Subs |-> <<>>]
    /\ attached_at = [s \in Subs |-> 0]
    /\ detached_at = [s \in Subs |-> -1]
    /\ close_called = [s \in Subs |-> FALSE]
    /\ maybe_task = [s \in Subs |-> "none"]
    /\ maybe_cancel = [s \in Subs |-> FALSE]
    /\ handler_raised = [s \in Subs |-> FALSE]

\* ------------------------------------------------- Subscriber actions ---
\* What a receive call hands to its caller: "item" (a pair, line 172),
\* "empty" (None after QueueEmpty, line 166), "timeout" (None after
\* TimeoutError, line 168) or the name of the exception raised.
Completed(s, outcome) ==
    [sub |-> s, outcome |-> outcome, failed |-> rx[s].exception # None]

Failures == {ClosedError, TransportFault, FinalizerFault}

\* Subscriber.__init__: raises ValueError on a capacity below 1 (nothing is
\* constructed then), and the closed error of add_listener, on a closed
\* implementation, after the fields were set: that object is never handed
\* out, and __del__ is what still runs on it.
MakeSubscriber(s, queue_capacity) ==
    /\ sub[s] = "absent"
    /\ \A u \in Subs : u < s => sub[u] # "absent"
    /\ queue_capacity.none \/ queue_capacity.value >= 1
    /\ LET al == AddListener(listeners, impl_closed, s) IN
       /\ sub' = [sub EXCEPT ![s] = IF al.raise = None THEN "live"
                                     ELSE "failed"]
       /\ listeners' = al.listeners
    /\ closed' = [closed EXCEPT ![s] = FALSE]
    /\ rx' = [rx EXCEPT ![s] = NewListener(Maxsize(queue_capacity))]
    /\ attached_at' = [attached_at EXCEPT ![s] = Len(fanout)]
    /\ UNCHANGED <<impl_closed, deserialization_failure_count, task,
                   must_cancel, finalizer_calls, finalizer_outcome,
                   exit_cause, ntransfers, fanout, call, last, taken,
                   detached_at, close_called>>
    /\ UNCHANGED taskVars

\* The part of receive_for that runs before its first suspension point.
StartReceive(s, kind, timeout) ==
    /\ sub[s] = "live"
    /\ call[s] = "idle"
    /\ LET chk == RaiseIfClosedOrFailed(closed[s], rx[s].exception) IN
       IF chk.raise # None
       THEN /\ closed' = [closed EXCEPT ![s] = chk.closed]
            /\ last' = Completed(s, Propagate(kind, chk.raise))
            /\ UNCHANGED <<rx, call, taken>>
       ELSE IF Suspends(timeout)
       THEN /\ call' = [call EXCEPT ![s] = kind]
            /\ UNCHANGED <<closed, last, rx, taken>>
       ELSE IF rx[s].queue = <<>>
       THEN /\ last' = Completed(s, "empty")
            /\ UNCHANGED <<closed, rx, call, taken>>
       ELSE /\ last' = Completed(s, "item")
            /\ taken' = [taken EXCEPT ![s] = Append(@, Head(rx[s].queue))]
            /\ rx' = [rx EXCEPT ![s].queue = Tail(@)]
            /\ UNCHANGED <<closed, call>>
    /\ UNCHANGED implVars
    /\ UNCHANGED <<sub, attached_at, detached_at, close_called>>

\* Subscriber.receive_for
ReceiveFor(s, timeout) ==
    StartReceive(s, "receive_for", timeout) /\ UNCHANGED taskVars

\* Subscriber.receive_until
ReceiveUntil(s, monotonic_deadline) ==
    /\ \E now \in Times :
           StartReceive(s, "receive_for", monotonic_deadline - now)
    /\ UNCHANGED taskVars

\* Subscriber.receive
Receive(s) ==
    StartReceive(s, "receive", RECEIVE_TIMEOUT) /\ UNCHANGED taskVars

\* Subscriber.__anext__: receive() with its closed error turned into the end
\* of the iteration
Anext(s) ==
    StartReceive(s, "anext", RECEIVE_TIMEOUT) /\ UNCHANGED taskVars

\* A suspended receive call is resumed: asyncio.wait_for has an item, has
\* timed out, or has raised.  receive() retries a timed out receive_for.
ResumeReceive(s) ==
    /\ sub[s] = "live"
    /\ call[s] # "idle"
    /\ LET outcome == WaitFor(rx[s])
           chk == RaiseIfClosedOrFailed(closed[s], rx[s].exception)
       IN
       IF outcome = "item"
       THEN /\ last' = Completed(s, "item")
            /\ taken' = [taken EXCEPT ![s] = Append(@, Head(rx[s].queue))]
            /\ rx' = [rx EXCEPT ![s].queue = Tail(@)]
            /\ call' = [call EXCEPT ![s] = "idle"]
            /\ UNCHANGED closed
       ELSE IF outcome # "timeout"
       THEN /\ last' = Completed(s, Propagate(call[s], outcome))
            /\ call' = [call EXCEPT ![s] = "idle"]
            /\ UNCHANGED <<closed, rx, taken>>
       ELSE IF call[s] = "receive_for"
       THEN /\ last' = Completed(s, "timeout")
            /\ call' = [call EXCEPT ![s] = "idle"]
            /\ UNCHANGED <<closed, rx, taken>>
       ELSE IF chk.raise # None
       THEN /\ closed' = [closed EXCEPT ![s] = chk.closed]
            /\ last' = Completed(s, Propagate(call[s], chk.raise))
            /\ call' = [call EXCEPT ![s] = "idle"]
            /\ UNCHANGED <<rx, taken>>
       ELSE UNCHANGED <<closed, last, call, rx, taken>>
    /\ UNCHANGED implVars
    /\ UNCHANGED <<sub, attached_at, detached_at, close_called>>

\* The suspended call of a direct caller (receive_for, receive_until,
\* receive, __anext__) is resumed.
Resume(s) ==
    /\ maybe_task[s] # "receiving"
    /\ ResumeReceive(s)
    /\ UNCHANGED taskVars

\* Subscriber.close
SubscriberClose(s) ==
    /\ sub[s] = "live"
    /\ IF ~closed[s]
       THEN LET rl == RemoveListener(listeners, impl_closed, s) IN
            /\ closed' = [closed EXCEPT ![s] = TRUE]
            /\ listeners' = rl.listeners
            /\ impl_closed' = rl.closed
            /\ must_cancel' = IF rl.cancel THEN Cancel(task, must_cancel)
                               ELSE must_cancel
            /\ detached_at' = IF s \in Range(listeners)
                               THEN [detached_at EXCEPT ![s] = Len(fanout)]
                               ELSE detached_at
            /\ maybe_cancel' =
                   IF maybe_task[s] # "none"
                   THEN [maybe_cancel EXCEPT
                             ![s] = Cancel(maybe_task[s], maybe_cancel[s])]
                   ELSE maybe_cancel
       ELSE UNCHANGED <<closed, listeners, impl_closed, must_cancel,
                        detached_at, maybe_cancel>>
    /\ close_called' = [close_called EXCEPT ![s] = TRUE]
    /\ UNCHANGED <<deserialization_failure_count, task, finalizer_calls,
                   finalizer_outcome, exit_cause, ntransfers, fanout, sub, rx,
                   call, last, taken, attached_at, maybe_task,
                   handler_raised>>

\* Subscriber.__del__, run when nothing refers to the object any more: no
\* call of it is pending and no task of receive_in_background is alive (the
\* task function refers to the Subscriber).
SubscriberDel(s) ==
    /\ sub[s] \in {"live", "failed"}
    /\ call[s] = "idle"
    /\ maybe_task[s] \in {"none", "done"}
    /\ IF ~closed[s]
       THEN LET rl == RemoveListener(listeners, impl_closed, s) IN
            /\ closed' = [closed EXCEPT ![s] = TRUE]
            /\ listeners' = rl.listeners
            /\ impl_closed' = rl.closed
            /\ must_cancel' = IF rl.cancel THEN Cancel(task, must_cancel)
                               ELSE must_cancel
            /\ detached_at' = IF s \in Range(listeners)
                               THEN [detached_at EXCEPT ![s] = Len(fanout)]
                               ELSE detached_at
       ELSE UNCHANGED <<closed, listeners, impl_closed, must_cancel,
                        detached_at>>
    /\ sub' = [sub EXCEPT ![s] = "deleted"]
    /\ UNCHANGED <<deserialization_failure_count, task, finalizer_calls,
                   finalizer_outcome, exit_cause, ntransfers, fanout, rx,
                   call, last, taken, attached_at, close_called>>
    /\ UNCHANGED taskVars

\* ----------------------------------- the task of receive_in_background ---
\* Subscriber.receive_in_background: the task made before, if any, is
\* cancelled and forgotten (it ends at its next step without touching the
\* Subscriber: the wait_for it is suspended in is cancelled with it), and a
\* new task is made.
ReceiveInBackground(s) ==
    /\ sub[s] = "live"
    /\ maybe_task' = [maybe_task EXCEPT ![s] = "created"]
    /\ maybe_cancel' = [maybe_cancel EXCEPT ![s] = FALSE]
    /\ call' = [call EXCEPT ![s] = IF maybe_task[s] = "receiving"
                                   THEN "idle" ELSE @]
    /\ UNCHANGED implVars
    /\ UNCHANGED <<sub, closed, rx, last, taken, attached_at, detached_at,
                   close_called, handler_raised>>

\* The task ends: by break, by leaving the loop, or by CancelledError.
BgExit(s) ==
    /\ maybe_task' = [maybe_task EXCEPT ![s] = "done"]
    /\ maybe_cancel' = [maybe_cancel EXCEPT ![s] = FALSE]
    /\ call' = [call EXCEPT ![s] = "idle"]
    /\ UNCHANGED implVars
    /\ UNCHANGED <<sub, closed, rx, last, taken, attached_at, detached_at,
                   close_called>>

\* task_function from the loop condition (line 104) to its next suspension
\* point: receive() up to its wait, or the sleep after its failure.
BgLoop(s) ==
    IF closed[s]
    THEN BgExit(s)
    ELSE /\ StartReceive(s, "receive", RECEIVE_TIMEOUT)
         /\ maybe_task' =
                [maybe_task EXCEPT
                    ![s] = IF call'[s] = "receive" THEN "receiving"
                           ELSE AfterReceiveFailure(last'.outcome)]
         /\ UNCHANGED maybe_cancel

\* The first step of the task; one cancelled before it never runs.
BgFirstStep(s) ==
    /\ maybe_task[s] = "created"
    /\ IF maybe_cancel[s] THEN BgExit(s) ELSE BgLoop(s)
    /\ UNCHANGED handler_raised

\* The task is resumed inside receive(): cancelled, or as ResumeReceive says;
\* an item goes to the handler (line 108).
BgResume(s) ==
    /\ maybe_task[s] = "receiving"
    /\ IF maybe_cancel[s]
       THEN BgExit(s)
       ELSE /\ ResumeReceive(s)
            /\ maybe_task' =
                   [maybe_task EXCEPT
                       ![s] = IF call'[s] # "idle" THEN "receiving"
                              ELSE IF last'.outcome = "item" THEN "handler"
                              ELSE AfterReceiveFailure(last'.outcome)]
            /\ UNCHANGED maybe_cancel
    /\ UNCHANGED handler_raised

\* The task is resumed inside the handler: cancelled (the handler gets
\* CancelledError, line 109), or the handler has returned or raised.
BgHandlerDone(s, raises) ==
    /\ maybe_task[s] = "handler"
    /\ IF maybe_cancel[s] \/ AfterHandler(raises) # "loop"
       THEN BgExit(s)
       ELSE BgLoop(s)
    /\ handler_raised' =
           [handler_raised EXCEPT ![s] = @ \/ (raises /\ ~maybe_cancel[s])]

\* The task is resumed after asyncio.sleep(1) (line 121).
BgWake(s) ==
    /\ maybe_task[s] = "sleeping"
    /\ IF maybe_cancel[s] THEN BgExit(s) ELSE BgLoop(s)
    /\ UNCHANGED handler_raised

\* -------------------------------------------- SubscriberImpl actions ---
\* SubscriberImpl.close
ImplClose ==
    /\ impl_closed' = TRUE
    /\ must_cancel' = Cancel(task, must_cancel)
    /\ UNCHANGED <<listeners, deserialization_failure_count, task,
                   finalizer_calls, finalizer_outcome, exit_cause, ntransfers,
                   fanout, sub, closed, rx, call, last, taken, attached_at,
                   detached_at, close_called>>
    /\ UNCHANGED taskVars

\* _task_function from line 298 to its end; r is the listeners' state the
\* loop left behind.
TaskExit(r, exception, cause) ==
    \E finalizer_raises \in BOOLEAN :
        LET f == Finalize(exception, finalizer_raises, finalizer_calls) IN
        /\ impl_closed' = f.closed
        /\ finalizer_calls' = f.calls
        /\ finalizer_outcome' = IF finalizer_raises THEN "raised"
                                 ELSE "returned"
        /\ rx' = SetException(r, listeners, f.exception)
        /\ task' = "done"
        /\ must_cancel' = FALSE
        /\ exit_cause' = cause

\* line 282, the loop condition, evaluated with the listeners' state r
TaskLoop(r) ==
    IF impl_closed
    THEN TaskExit(r, None, "flag")
    ELSE /\ rx' = r
         /\ task' = "suspended"
         /\ UNCHANGED <<impl_closed, finalizer_calls, finalizer_outcome,
                        must_cancel, exit_cause>>

\* The first step of the task made by loop.create_task (line 275).  A task
\* cancelled before its first step gets CancelledError thrown into the
\* coroutine that has not started: no line of _task_function is executed.
TaskFirstStep ==
    /\ task = "created"
    /\ IF must_cancel
       THEN /\ task' = "done"
            /\ must_cancel' = FALSE
            /\ exit_cause' = "never_ran"
            /\ UNCHANGED <<impl_closed, finalizer_calls, finalizer_outcome,
                           rx>>
       ELSE TaskLoop(rx)
    /\ UNCHANGED <<listeners, deserialization_failure_count, ntransfers,
                   fanout, sub, closed, call, last, taken, attached_at,
                   detached_at, close_called>>
    /\ UNCHANGED taskVars

\* The task is resumed at line 283: cancelled, or with what
\* transport_session.receive_until produced.
TaskResume(outcome, payload) ==
    /\ task = "suspended"
    /\ IF must_cancel
       THEN /\ TaskExit(rx, None, "cancelled")
            /\ UNCHANGED <<deserialization_failure_count, ntransfers, fanout>>
       ELSE CASE outcome = "transfer" ->
                 /\ ntransfers < MaxTransfers
                 /\ LET transfer == [id |-> ntransfers + 1, payload |-> payload]
                        d == Dispatch(rx, listeners,
                                      deserialization_failure_count, transfer)
                    IN /\ ntransfers' = ntransfers + 1
                       /\ deserialization_failure_count' = d.count
                       /\ fanout' = fanout \o d.pushed
                       /\ TaskLoop(d.rx)
              [] outcome = "timeout" ->
                 /\ TaskLoop(rx)
                 /\ UNCHANGED <<deserialization_failure_count, ntransfers,
                                fanout>>
              [] outcome = "fault" ->
                 /\ TaskExit(rx, TransportFault, "fault")
                 /\ UNCHANGED <<deserialization_failure_count, ntransfers,
                                fanout>>
    /\ UNCHANGED <<listeners, sub, closed, call, last, taken, attached_at,
                   detached_at, close_called>>
    /\ UNCHANGED taskVars

Next ==
    \/ \E s \in Subs, c \in Capacities : MakeSubscriber(s, c)
    \/ \E s \in Subs, t \in Timeouts : ReceiveFor(s, t)
    \/ \E s \in Subs, d \in Times : ReceiveUntil(s, d)
    \/ \E s \in Subs : Receive(s)
    \/ \E s \in Subs : Resume(s)
    \/ \E s \in Subs : SubscriberClose(s)
    \/ ImplClose
    \/ TaskFirstStep
    \/ \E p \in {"valid", "malformed"} : TaskResume("transfer", p)
    \/ \E o \in {"timeout", "fault"} : TaskResume(o, "none")

Spec == Init /\ [][Next]_vars

\* The consumers iterate their Subscribers (async for) instead of calling
\* the receive methods, and Subscribers they let go of are finalized.
NextIteration ==
    \/ \E s \in Subs, c \in Capacities : MakeSubscriber(s, c)
    \/ \E s \in Subs : Anext(s)
    \/ \E s \in Subs : Resume(s)
    \/ \E s \in Subs : SubscriberClose(s)
    \/ \E s \in Subs : SubscriberDel(s)
    \/ ImplClose
    \/ TaskFirstStep
    \/ \E p \in {"valid", "malformed"} : TaskResume("transfer", p)
    \/ \E o \in {"timeout", "fault"} : TaskResume(o, "none")

IterationSpec == Init /\ [][NextIteration]_vars

\* The consumers use receive_in_background, on Subscribers made with the
\* default queue_capacity (None).
NextHandler ==
    \/ \E s \in Subs : MakeSubscriber(s, [none |-> TRUE, value |-> 0])
    \/ \E s \in Subs : ReceiveInBackground(s)
    \/ \E s \in Subs : BgFirstStep(s)
    \/ \E s \in Subs : BgResume(s)
    \/ \E s \in Subs, raises \in BOOLEAN : BgHandlerDone(s, raises)
    \/ \E s \in Subs : BgWake(s)
    \/ \E s \in Subs : SubscriberClose(s)
    \/ ImplClose
    \/ TaskFirstStep
    \/ \E p \in {"valid", "malformed"} : TaskResume("transfer", p)
    \/ \E o \in {"timeout", "fault"} : TaskResume(o, "none")

\* The event loop runs every task that is ready: a new task gets its first
\* step, a wait_for ends within its timeout, a sleep ends, and the handler
\* awaited by the task comes back.
HandlerSpec ==
    /\ Init /\ [][NextHandler]_vars
    /\ \A s \in Subs :
           /\ WF_vars(BgFirstStep(s))
           /\ WF_vars(BgResume(s))
           /\ WF_vars(BgWake(s))
           /\ WF_vars(\E raises \in BOOLEAN : BgHandlerDone(s, raises))

\* The consumers call receive() only.
NextReceive ==
    \/ \E s \in Subs, c \in Capacities : MakeSubscriber(s, c)
    \/ \E s \in Subs : Receive(s)
    \/ \E s \in Subs : Resume(s)
    \/ \E s \in Subs : SubscriberClose(s)
    \/ ImplClose
    \/ TaskFirstStep
    \/ \E p \in {"valid", "malformed"} : TaskResume("transfer", p)
    \/ \E o \in {"timeout", "fault"} : TaskResume(o, "none")

\* The event loop resumes every suspended receive call: the asyncio.wait_for of
\* line 162 ends when the queue hands over an item or the timeout elapses.
ReceiveSpec ==
    /\ Init /\ [][NextReceive]_vars
    /\ \A s \in Subs : WF_vars(Resume(s))

\* Subscriber.sample_statistics, without the transport session's own record
SampleStatistics(s) ==
    [messages |-> rx[s].push_count,
     deserialization_failures |-> deserialization_failure_count,
     overruns |-> rx[s].overrun_count]

\* ============================================================== claims ===
Attached(s) == s \in Range(listeners)

\* The (message, transfer) pairs fanned out while the Listener of s was
\* registered.
Offered(s) ==
    SubSeq(fanout, attached_at[s] + 1,
           IF detached_at[s] >= 0 THEN detached_at[s] ELSE Len(fanout))

\* C1: every attached Subscriber whose queue never overran has received
\* exactly the pairs fanned out since it was attached, in delivery order
\* (what it took out followed by what is still queued), each pair holding
\* the one message object decoded for that transfer; its push-count is their
\* number.
C1_FanOutInOrder ==
    \A s \in Subs :
        (Attached(s) /\ rx[s].overrun_count = 0) =>
            /\ taken[s] \o rx[s].queue = Offered(s)
            /\ rx[s].push_count = Len(Offered(s))
            /\ \A i \in 1..Len(Offered(s)) :
                   Offered(s)[i][1] = Deserialize(Offered(s)[i][2])

C1_Witness ==
    \E a, b \in Subs :
        /\ a # b /\ Attached(a) /\ Attached(b)
        /\ rx[a].overrun_count = 0 /\ rx[b].overrun_count = 0
        /\ rx[a].maxsize = 1 /\ Len(taken[a]) = 1 /\ Len(rx[a].queue) = 1
        /\ Len(Offered(b)) = 2 /\ Len(Offered(a)) = 2

\* C2: a Listener of capacity C >= 1 that was offered M > C pairs while
\* nothing was taken out of its queue has push-count C, overrun-count M - C
\* and holds the first C pairs offered, in order.
C2_OverrunDropsNewest ==
    \A s \in Subs :
        LET C == rx[s].maxsize
            M == Len(Offered(s))
        IN (sub[s] = "live" /\ C >= 1 /\ taken[s] = <<>> /\ M > C) =>
               /\ rx[s].push_count = C
               /\ rx[s].overrun_count = M - C
               /\ rx[s].queue = SubSeq(Offered(s), 1, C)

C2_Witness ==
    \E s \in Subs :
        /\ sub[s] = "live" /\ rx[s].maxsize = 1 /\ taken[s] = <<>>
        /\ Len(Offered(s)) = 2 /\ rx[s].overrun_count = 1
        /\ task = "suspended"

\* C3: the finalizer is invoked at most once, whatever the order of
\* SubscriberImpl.close(), removals of listeners, faults of the loop and
\* later Subscriber.close() calls.
C3_FinalizerAtMostOnce == finalizer_calls <= 1

\* The loop has ended by a fault, and afterwards the implementation was
\* closed explicitly and every Subscriber attached at the fault was closed.
C3_Witness ==
    /\ finalizer_calls = 1 /\ exit_cause = "fault"
    /\ listeners = <<>>
    /\ \E s \in Subs : rx[s].exception # None /\ detached_at[s] >= 0

\* C4: once the last attached Subscriber has been closed and the background
\* task has terminated, the finalizer has been invoked (the transport
\* session has been released).
C4_ReleasedAfterLastSubscriberCloses ==
    (/\ listeners = <<>>
     /\ \E s \in Subs : detached_at[s] >= 0
     /\ task = "done") => finalizer_calls >= 1

C6_PendingCallObservesFailure ==
    last.failed => last.outcome \in Failures

\* C6, amended: a receive_for call that is suspended when the terminal
\* failure is set is not woken by it: it completes with the item that was
\* queued meanwhile or, when its timeout elapses, with no result; the
\* Subscriber is not closed by it and stays idle until its next call.
C6_PendingCallTimesOut ==
    [][\A s \in Subs :
          (call[s] = "receive_for" /\ rx[s].exception # None /\ Resume(s)) =>
              /\ last'.sub = s /\ last'.failed
              /\ last'.outcome = IF rx[s].queue = <<>> THEN "timeout" ELSE "item"
              /\ closed'[s] = closed[s]
              /\ call'[s] = "idle"
      ]_vars

C6_Witness ==
    \E s \in Subs :
        /\ last = [sub |-> s, outcome |-> "timeout", failed |-> TRUE]
        /\ rx[s].exception = TransportFault /\ ~closed[s] /\ call[s] = "idle"

\* C7: a transfer that fails to deserialize adds exactly one to the shared
\* deserialization-failure-count, which sample_statistics() of every
\* attached Subscriber then reports; no Listener changes; the task waits for
\* the next transfer and the implementation is not closed.
C7_DeserializationFailureAbsorbed ==
    [][(~must_cancel /\ TaskResume("transfer", "malformed")) =>
          /\ deserialization_failure_count' = deserialization_failure_count + 1
          /\ \A s \in Subs :
                 Attached(s) =>
                     SampleStatistics(s)'.deserialization_failures
                         = deserialization_failure_count + 1
          /\ rx' = rx
          /\ fanout' = fanout
          /\ task' = "suspended"
          /\ impl_closed' = impl_closed /\ ~impl_closed'
          /\ finalizer_calls' = finalizer_calls
      ]_vars

C7_Witness ==
    /\ deserialization_failure_count = 1 /\ ntransfers = 2
    /\ task = "suspended" /\ ~impl_closed
    /\ Len(listeners) = 2
    /\ \A s \in Subs : Len(rx[s].queue) = 1 /\ rx[s].push_count = 1
    /\ fanout[1][2].id = 1

\* C8: receive_for with a timeout <= 0 on an open, healthy Subscriber is one
\* step: it ends idle, with the head of the queue taken out when there is
\* one, and with no result otherwise.
C8_NonPositiveTimeoutPolls ==
    [][\A s \in Subs, t \in Timeouts :
          (/\ t <= 0 /\ ~closed[s] /\ rx[s].exception = None
           /\ ReceiveFor(s, t)) =>
              /\ call'[s] = "idle"
              /\ last'.sub = s
              /\ IF rx[s].queue = <<>>
                 THEN /\ last'.outcome = "empty"
                      /\ rx' = rx /\ taken' = taken
                 ELSE /\ last'.outcome = "item"
                      /\ taken'[s] = Append(taken[s], Head(rx[s].queue))
                      /\ rx'[s].queue = Tail(rx[s].queue)
      ]_vars

\* Polls of one open Subscriber have returned the item and then nothing.
C8_Witness ==
    \E s \in Subs :
        /\ last = [sub |-> s, outcome |-> "empty", failed |-> FALSE]
        /\ ~closed[s] /\ rx[s].exception = None
        /\ Len(taken[s]) = 1 /\ rx[s].queue = <<>>

\* C9: closing Subscriber a while b is attached leaves b registered and b's
\* Listener, closed-flag, pending call and received items unchanged, and
\* leaves the implementation's closed-flag, its task and the finalizer
\* count unchanged; a receive call of b, open and healthy with a pair in its
\* queue, yields a pair, and a pair b gets is the oldest one in its queue;
\* and a pair fanned out is pushed to b as long as b is attached.
C9_OtherSubscriberUnaffected ==
    [][/\ \A a, b \in Subs :
              (a # b /\ ~closed[a] /\ Attached(b) /\ SubscriberClose(a)) =>
                  /\ b \in Range(listeners')
                  /\ rx'[b] = rx[b] /\ closed'[b] = closed[b]
                  /\ call'[b] = call[b] /\ taken'[b] = taken[b]
                  /\ impl_closed' = impl_closed
                  /\ must_cancel' = must_cancel /\ task' = task
                  /\ finalizer_calls' = finalizer_calls
       /\ \A b \in Subs :
              /\ (/\ ~closed[b] /\ rx[b].exception = None
                  /\ rx[b].queue # <<>>
                  /\ \E t \in Timeouts : ReceiveFor(b, t)) =>
                     \/ call'[b] = "receive_for" /\ rx'[b] = rx[b]
                     \/ /\ last' = Completed(b, "item")
                        /\ taken'[b] = Append(taken[b], Head(rx[b].queue))
              /\ (call[b] # "idle" /\ rx[b].queue # <<>> /\ Resume(b)) =>
                     /\ last' = Completed(b, "item")
                     /\ taken'[b] = Append(taken[b], Head(rx[b].queue))
              /\ taken'[b] # taken[b] =>
                     /\ rx[b].queue # <<>>
                     /\ taken'[b] = Append(taken[b], Head(rx[b].queue))
              /\ (Attached(b) /\ fanout' # fanout) =>
                     /\ rx'[b].push_count + rx'[b].overrun_count
                            = rx[b].push_count + rx[b].overrun_count + 1
                     /\ ~QueueFull(rx[b]) =>
                            rx'[b].queue
                                = Append(rx[b].queue, fanout'[Len(fanout')])
      ]_vars

\* a was closed, and b then got the pair fanned out after that.
C9_Witness ==
    \E a, b \in Subs :
        /\ a # b /\ closed[a] /\ detached_at[a] >= 0
        /\ Attached(b) /\ ~impl_closed /\ finalizer_calls = 0
        /\ Len(fanout) > detached_at[a] /\ attached_at[b] <= detached_at[a]
        /\ taken[b] # <<>>
        /\ taken[b][Len(taken[b])] = fanout[Len(fanout)]
        /\ last = [sub |-> b, outcome |-> "item", failed |-> FALSE]

\* C10: a receive call started on a closed Subscriber fails with the closed
\* error, whatever its timeout, and takes nothing out of the queue; so does
\* the retry of a receive() that was pending when the Subscriber was closed.
C10_ClosedSubscriberFails ==
    [][\A s \in Subs :
          closed[s] =>
              /\ \A k \in {"receive_for", "receive"}, t \in Timeouts :
                     StartReceive(s, k, t) =>
                         /\ last'.sub = s /\ last'.outcome = ClosedError
                         /\ call'[s] = "idle"
                         /\ rx' = rx /\ taken' = taken
              /\ (call[s] = "receive" /\ rx[s].queue = <<>> /\ Resume(s)) =>
                         /\ last'.sub = s /\ last'.outcome = ClosedError
                         /\ call'[s] = "idle"
      ]_vars

\* A Subscriber closed by close() with an item left in its queue got the
\* closed error.
C10_Witness ==
    \E s \in Subs :
        /\ closed[s] /\ detached_at[s] >= 0 /\ rx[s].exception = None
        /\ rx[s].queue # <<>>
        /\ last = [sub |-> s, outcome |-> ClosedError, failed |-> FALSE]

\* The terminal failure the loop's own outcome calls for: the fault that
\* ended it, or the closed error after a cancellation or the closed-flag.
LoopFailure == IF exit_cause = "fault" THEN TransportFault ELSE ClosedError

\* C14, as claimed: the terminal failure set on a Listener at loop exit is
\* the fault that ended the loop, or the closed error when no fault ended it,
\* whether the finalizer returned or raised.
C14_FailureIsLoopOutcome ==
    \A s \in Subs : rx[s].exception # None => rx[s].exception = LoopFailure

\* C14, amended: once the loop has exited, every Listener still registered
\* carries a terminal failure; a terminal failure is set only by the loop's
\* exit, and it is the loop's fault or the closed error when the finalizer
\* returned, and the finalizer's own exception when the finalizer raised.
C14_FailureIsFinalizerOrLoopOutcome ==
    /\ (task = "done" /\ exit_cause # "never_ran") =>
           \A s \in Subs : Attached(s) => rx[s].exception # None
    /\ \A s \in Subs :
           rx[s].exception # None =>
               /\ finalizer_calls = 1 /\ task = "done"
               /\ rx[s].exception = IF finalizer_outcome = "raised"
                                     THEN FinalizerFault ELSE LoopFailure

\* The loop ended by a fault, the finalizer raised, and two registered
\* Listeners carry the finalizer's exception.
C14_Witness ==
    /\ exit_cause = "fault" /\ finalizer_outcome = "raised"
    /\ Len(listeners) = 2
    /\ \A s \in Subs : Attached(s) /\ rx[s].exception = FinalizerFault

\* C17: across every step, no Listener's push-count or overrun-count
\* decreases, a terminal failure that is set stays the same, and the
\* closed-flags of the Subscribers and of the implementation stay set.
C17_Monotonic ==
    [][/\ \A s \in Subs :
              /\ rx'[s].push_count >= rx[s].push_count
              /\ rx'[s].overrun_count >= rx[s].overrun_count
              /\ rx[s].exception # None => rx'[s].exception = rx[s].exception
              /\ closed[s] => closed'[s]
       /\ impl_closed => impl_closed'
      ]_vars

\* A Listener that counted a push and an overrun and then got the terminal
\* failure; its Subscriber was closed by it and has made a call since.
C17_Witness ==
    \E s \in Subs :
        /\ rx[s].push_count >= 1 /\ rx[s].overrun_count >= 1
        /\ rx[s].exception # None /\ closed[s] /\ impl_closed
        /\ last = [sub |-> s, outcome |-> ClosedError, failed |-> TRUE]

\* C18: once the implementation's closed-flag is set, nothing is fanned out
\* any more: no Listener's queue grows and no push-count or overrun-count
\* changes, also when the task is resumed with a transfer at hand.
C18_NoPushAfterClosed ==
    [][impl_closed =>
          /\ fanout' = fanout
          /\ \A s \in Subs :
                 /\ Len(rx'[s].queue) <= Len(rx[s].queue)
                 /\ rx'[s].push_count = rx[s].push_count
                 /\ rx'[s].overrun_count = rx[s].overrun_count
      ]_vars

\* The flag was set while the task waited and transfers were still to come;
\* the task has ended by the cancellation and the attached Listener holds
\* what it held before.
C18_Witness ==
    \E s \in Subs :
        /\ impl_closed /\ task = "done" /\ exit_cause = "cancelled"
        /\ ntransfers = 1 /\ ntransfers < MaxTransfers
        /\ Attached(s) /\ rx[s].push_count = 1 /\ Len(rx[s].queue) = 1

\* C19: for every Listener, push-count plus overrun-count is the number of
\* pairs fanned out while it was registered, the queue holds push-count
\* minus the number of items taken out, and a queue of capacity C >= 1 never
\* holds more than C items.
C19_Accounting ==
    \A s \in Subs :
        sub[s] # "absent" =>
            /\ rx[s].push_count + rx[s].overrun_count = Len(Offered(s))
            /\ Len(rx[s].queue) = rx[s].push_count - Len(taken[s])
            /\ rx[s].maxsize >= 1 => Len(rx[s].queue) <= rx[s].maxsize

\* A Listener of capacity 1 dropped a pair, and its one item was taken out.
C19_Witness ==
    \E s \in Subs :
        /\ rx[s].maxsize = 1 /\ rx[s].overrun_count = 1
        /\ rx[s].push_count = 1 /\ Len(taken[s]) = 1 /\ rx[s].queue = <<>>

\* C20, as claimed: once the terminal failure is set on a Listener, its
\* Subscriber obtains no further item.
C20_QueuedItemsNeverDelivered ==
    [][\A s \in Subs : rx[s].exception # None => taken'[s] = taken[s]]_vars

\* C20, amended: once the terminal failure is set on a Listener, every
\* receive call its Subscriber starts fails without touching the queue; the
\* only item still obtained is the head of the queue handed to the one call
\* that was already suspended; and with no call suspended the queue and the
\* items obtained stay as they are for good.
C20_QueuedItemsLeftBehind ==
    [][\A s \in Subs :
          rx[s].exception # None =>
              /\ \A k \in {"receive_for", "receive"}, t \in Timeouts :
                     StartReceive(s, k, t) =>
                         /\ last'.sub = s /\ last'.outcome \in Failures
                         /\ rx' = rx /\ taken' = taken /\ call' = call
              /\ taken'[s] # taken[s] =>
                     /\ call[s] # "idle" /\ call'[s] = "idle"
                     /\ taken'[s] = Append(taken[s], Head(rx[s].queue))
              /\ call[s] = "idle" =>
                     /\ call'[s] = "idle"
                     /\ rx'[s].queue = rx[s].queue /\ taken'[s] = taken[s]
      ]_vars

\* A failed Subscriber whose calls have failed twice while a pushed item is
\* still in its queue.
C20_Witness ==
    \E s \in Subs :
        /\ rx[s].exception # None /\ closed[s] /\ call[s] = "idle"
        /\ rx[s].queue # <<>> /\ Len(taken[s]) < rx[s].push_count
        /\ last = [sub |-> s, outcome |-> ClosedError, failed |-> TRUE]
        /\ exit_cause = "cancelled"

\* C12: a receive() call ends only with a pair or by raising, and it keeps
\* waiting only while its Subscriber is open and healthy; a receive() that
\* is pending on an empty queue when its Subscriber is closed or its
\* Listener has the terminal failure eventually ends by raising.
C12_ReceiveEndsByRaising ==
    /\ [][\A s \in Subs :
              /\ (Receive(s) /\ call'[s] = "idle") =>
                     last'.sub = s /\ last'.outcome \in Failures
              /\ (call[s] = "receive" /\ Resume(s)) =>
                     IF call'[s] = "idle"
                     THEN /\ last'.sub = s
                          /\ last'.outcome \in Failures \cup {"item"}
                          /\ last'.outcome = "item" =>
                                 taken'[s] = Append(taken[s], Head(rx[s].queue))
                     ELSE /\ ~closed[s] /\ rx[s].exception = None
                          /\ rx[s].queue = <<>>
          ]_vars
    /\ \A s \in Subs :
           (/\ call[s] = "receive" /\ rx[s].queue = <<>>
            /\ (closed[s] \/ rx[s].exception # None))
               ~> (/\ call[s] = "idle" /\ last.sub = s
                   /\ last.outcome \in Failures)

\* One Subscriber was closed, and the Listener of the other got the terminal
\* failure, while each was waiting in receive() on an empty queue.
C12_Witness ==
    \E s, u \in Subs :
        /\ call[s] = "receive" /\ rx[s].queue = <<>>
        /\ closed[s] /\ rx[s].exception = None
        /\ call[u] = "receive" /\ rx[u].queue = <<>>
        /\ ~closed[u] /\ rx[u].exception # None

\* C13: an iteration step that ends without an item ends the iteration
\* normally exactly when receive() failed with the closed error (the
\* Subscriber is closed, or the terminal failure of its Listener is the
\* closed error), and raises the terminal failure itself when that is
\* another fault; a step that finds an item yields it.
C13_IterationEndsOnClosedError ==
    [][\A s \in Subs :
          (/\ Anext(s) \/ (call[s] = "anext" /\ Resume(s))
           /\ call'[s] = "idle") =>
              /\ last'.sub = s
              /\ last'.outcome =
                     IF call[s] = "anext" /\ rx[s].queue # <<>> THEN "item"
                     ELSE IF closed[s] \/ rx[s].exception = ClosedError
                     THEN StopAsyncIteration
                     ELSE rx[s].exception
              /\ last'.outcome \in {"item", StopAsyncIteration,
                                    TransportFault, FinalizerFault}
      ]_vars

\* An iteration that yielded an item and whose next step raised the fault of
\* the background loop.
C13_Witness ==
    \E s \in Subs :
        /\ last = [sub |-> s, outcome |-> TransportFault, failed |-> TRUE]
        /\ closed[s] /\ call[s] = "idle" /\ Len(taken[s]) = 1

\* A step of the receive_in_background task of s.
BgStep(s) ==
    \/ BgFirstStep(s)
    \/ BgResume(s)
    \/ BgWake(s)
    \/ \E raises \in BOOLEAN : BgHandlerDone(s, raises)

\* C16: when the handler raises, the task goes on to wait for the next
\* message, and a message that arrives goes to the handler; a closed error
\* of receive() and a cancellation end the task without a handler call;
\* once close() was called the handler is not invoked again, and the task
\* eventually terminates.
C16_HandlerLoop ==
    /\ [][\A s \in Subs :
              /\ (/\ ~maybe_cancel[s] /\ ~closed[s] /\ rx[s].exception = None
                  /\ BgHandlerDone(s, TRUE)) =>
                     maybe_task'[s] = "receiving" /\ handler_raised'[s]
              /\ (~maybe_cancel[s] /\ rx[s].queue # <<>> /\ BgResume(s)) =>
                     /\ maybe_task'[s] = "handler"
                     /\ taken'[s] = Append(taken[s], Head(rx[s].queue))
              /\ (maybe_cancel[s] /\ BgStep(s)) =>
                     maybe_task'[s] = "done" /\ taken'[s] = taken[s]
              /\ (/\ ~maybe_cancel[s] /\ rx[s].exception = ClosedError
                  /\ ~(maybe_task[s] = "receiving" /\ rx[s].queue # <<>>)
                  /\ BgStep(s)) =>
                     maybe_task'[s] = "done" /\ taken'[s] = taken[s]
              /\ close_called[s] => taken'[s] = taken[s]
          ]_vars
    /\ \A s \in Subs :
           close_called[s] ~> (maybe_task[s] \in {"none", "done"})

\* The handler raised on the first message and is now running on the second.
C16_Witness ==
    \E s \in Subs :
        /\ handler_raised[s] /\ maybe_task[s] = "handler"
        /\ Len(taken[s]) = 2 /\ ~closed[s]

\* C11, as claimed: once close() has been called on a Subscriber, its
\* Listener is detached from the implementation.
C11_FirstCloseDetaches ==
    \A s \in Subs : close_called[s] => ~Attached(s)

\* C11, amended: close() on a Subscriber that is not closed closes it and
\* removes its Listener, which was registered and is removed this once;
\* close() and __del__ on a Subscriber that is closed already (by close() or
\* by a terminal failure it has observed) change nothing: the listener set,
\* the implementation's flag, task and counters, and every Listener stay as
\* they are; and a Listener that was removed stays removed.
C11_CloseIdempotent ==
    [][\A s \in Subs :
          /\ (~closed[s] /\ SubscriberClose(s)) =>
                 /\ closed'[s] /\ close_called'[s]
                 /\ Attached(s) /\ detached_at[s] = -1
                 /\ listeners' = ListRemove(listeners, s)
                 /\ s \notin Range(listeners')
                 /\ detached_at'[s] = Len(fanout)
          /\ (closed[s] /\ (SubscriberClose(s) \/ SubscriberDel(s))) =>
                 /\ UNCHANGED implVars
                 /\ UNCHANGED <<closed, rx, call, last, taken, attached_at,
                                detached_at>>
                 /\ UNCHANGED taskVars
          /\ detached_at[s] >= 0 =>
                 detached_at'[s] = detached_at[s] /\ s \notin Range(listeners')
      ]_vars

\* A Subscriber was closed by close() and then finalized while another one
\* is attached to the implementation, which is still open.
C11_Witness ==
    \E s, b \in Subs :
        /\ sub[s] = "deleted" /\ close_called[s] /\ detached_at[s] >= 0
        /\ b # s /\ Attached(b) /\ ~impl_closed /\ ~closed[b]

\* C15: the constructor's add_listener on a closed implementation raises
\* and leaves the listener set and the implementation as they are, and on an
\* open one it registers the Listener; remove_listener on a closed
\* implementation (from close() or __del__ of an open Subscriber) removes
\* the Listener and neither cancels the task nor changes the flag; and
\* remove_listener of a Listener that was never registered (from __del__ of
\* a Subscriber whose constructor raised) changes nothing.
C15_AddFailsRemoveSucceeds ==
    [][\A s \in Subs :
          /\ \A c \in Capacities :
                 MakeSubscriber(s, c) =>
                     IF impl_closed
                     THEN /\ sub'[s] = "failed" /\ listeners' = listeners
                          /\ UNCHANGED <<impl_closed, task, must_cancel,
                                         finalizer_calls>>
                     ELSE /\ sub'[s] = "live"
                          /\ listeners' = Append(listeners, s)
          /\ (/\ ~closed[s] /\ impl_closed
              /\ SubscriberClose(s) \/ SubscriberDel(s)) =>
                 /\ listeners' = ListRemove(listeners, s)
                 /\ closed'[s] /\ impl_closed'
                 /\ ~RemoveListener(listeners, impl_closed, s).cancel
                 /\ must_cancel' = must_cancel /\ task' = task
          /\ (sub[s] = "failed" /\ SubscriberDel(s)) =>
                 /\ ~Attached(s) /\ listeners' = listeners
                 /\ sub'[s] = "deleted" /\ closed'[s]
                 /\ detached_at'[s] = -1
      ]_vars

\* A Subscriber whose constructor raised on the closed implementation has
\* been finalized, while a Subscriber made before is still registered.
C15_Witness ==
    \E s, b \in Subs :
        /\ sub[s] = "deleted" /\ closed[s] /\ detached_at[s] = -1
        /\ rx[s].exception = None /\ impl_closed
        /\ b # s /\ Attached(b)

====
